---- MODULE Spec2Model ----
(***************************************************************************)
(* Model of src/script.py: class DateUtility.                              *)
(*                                                                         *)
(* Python values are modelled as records that carry their Python type:     *)
(* a datetime.date and a datetime.datetime are different values even when  *)
(* they show the same calendar day, exactly as Python's == and hash() see  *)
(* them.  A day is kept as its proleptic Gregorian ordinal                 *)
(* (date.toordinal()), a time of day as seconds after midnight.            *)
(***************************************************************************)
EXTENDS Integers, Sequences, FiniteSets

VARIABLES pc, file, lines, holidays, raised, op, from_date, to_date,
          timezone, result, iterations

vars == <<pc, file, lines, holidays, raised, op, from_date, to_date,
          timezone, result, iterations>>

(***************************************************************************)
(* Bounds of the model.                                                    *)
(***************************************************************************)
\* lines of a holidays file walked by the loader, header included
MaxLines == 4
\* holiday records of the calendar the calculator is queried with
MaxHolidays == 1
\* calendar days the calculator's arguments are drawn from
NumDays == 12

\* seconds of one day, as datetime.timedelta normalises them
SecondsPerDay == 86400

None == [type |-> "NoneType", ordinal |-> 0, second |-> 0, tzinfo |-> "None"]

\* datetime.date with the given ordinal
Date(ordinal) ==
  [type |-> "date", ordinal |-> ordinal, second |-> 0, tzinfo |-> "None"]

\* naive datetime.datetime
Datetime(ordinal, second) ==
  [type |-> "datetime", ordinal |-> ordinal, second |-> second, tzinfo |-> "None"]

\* timezone-aware datetime.datetime, wall-clock fields in tzinfo
AwareDatetime(ordinal, second, tz) ==
  [type |-> "datetime", ordinal |-> ordinal, second |-> second, tzinfo |-> tz]

(***************************************************************************)
(* datetime.datetime.strptime(date_str, "%Y%m%d").date()                   *)
(***************************************************************************)
Digits == {"0", "1", "2", "3", "4", "5", "6", "7", "8", "9"}

DigitVal(c) ==
  CASE c = "0" -> 0 [] c = "1" -> 1 [] c = "2" -> 2 [] c = "3" -> 3
    [] c = "4" -> 4 [] c = "5" -> 5 [] c = "6" -> 6 [] c = "7" -> 7
    [] c = "8" -> 8 [] c = "9" -> 9

is_leap(year) ==
  year % 4 = 0 /\ (year % 100 # 0 \/ year % 400 = 0)

days_in_month(year, month) ==
  IF month = 2 THEN (IF is_leap(year) THEN 29 ELSE 28)
  ELSE IF month \in {4, 6, 9, 11} THEN 30 ELSE 31

days_before_year(year) ==
  LET y == year - 1 IN y * 365 + (y \div 4) - (y \div 100) + (y \div 400)

RECURSIVE days_before_month(_, _)
days_before_month(year, month) ==
  IF month = 1 THEN 0
  ELSE days_before_month(year, month - 1) + days_in_month(year, month - 1)

ymd2ord(year, month, day) ==
  days_before_year(year) + days_before_month(year, month) + day

\* the fields strptime reads out of an 8-character YYYYMMDD string
strptime_year(s) ==
  DigitVal(s[1]) * 1000 + DigitVal(s[2]) * 100 + DigitVal(s[3]) * 10 + DigitVal(s[4])

strptime_month(s) == DigitVal(s[5]) * 10 + DigitVal(s[6])

strptime_day(s) == DigitVal(s[7]) * 10 + DigitVal(s[8])

\* strptime raises ValueError unless the string matches the format
strptime_ok(s) ==
  /\ Len(s) = 8
  /\ \A i \in 1..8 : s[i] \in Digits
  /\ strptime_year(s) >= 1
  /\ strptime_month(s) \in 1..12
  /\ strptime_day(s) \in 1..days_in_month(strptime_year(s), strptime_month(s))

strptime_date(s) ==
  Date(ymd2ord(strptime_year(s), strptime_month(s), strptime_day(s)))

\* date.weekday(): Monday is 0, Sunday is 6
weekday(d) == (d.ordinal + 6) % 7

(***************************************************************************)
(* The holidays file.  A line is kept as the fields that                   *)
(* line.strip().split(', ') yields; a date field is a sequence of          *)
(* characters.                                                             *)
(***************************************************************************)
D20221225 == <<"2", "0", "2", "2", "1", "2", "2", "5">>
D20221226 == <<"2", "0", "2", "2", "1", "2", "2", "6">>

HeaderLine == <<"Timezone", <<"D", "a", "t", "e">>, "Holiday">>

BadLine == <<"US/Eastern", <<"2", "0", "2", "2", "1", "3", "0", "1">>, "Nothing">>

FileTimezones == {"US/Eastern", "UTC"}

DateStrs == {D20221225, D20221226}

Labels == {"Christmas", "Boxing Day"}

RecordLines == {<<tz, ds, lb>> : tz \in FileTimezones, ds \in DateStrs, lb \in Labels}

RECURSIVE SeqsUpTo(_, _)
SeqsUpTo(S, n) ==
  IF n = 0 THEN {<<>>}
  ELSE LET shorter == SeqsUpTo(S, n - 1)
       IN shorter \cup {Append(s, x) : s \in {t \in shorter : Len(t) = n - 1}, x \in S}

\* files the loader is run on: any first line, then records, some malformed
LoadFiles ==
  {<<>>} \cup
  {<<h>> \o recs : h \in RecordLines \cup {HeaderLine},
                   recs \in SeqsUpTo(RecordLines \cup {BadLine}, MaxLines - 1)}

\* files the calculator's calendar is built from
CalcFiles ==
  {<<HeaderLine>> \o recs :
     recs \in SeqsUpTo({l \in RecordLines : l[3] = "Christmas"}, MaxHolidays)}

(***************************************************************************)
(* load_holidays                                                           *)
(***************************************************************************)
\* holidays[timezone][date] = holiday, creating holidays[timezone] if absent
store_first_wins(h, tz, date, holiday) ==
  LET sub == IF tz \in DOMAIN h THEN h[tz] ELSE <<>>
      newsub == [d \in DOMAIN sub \cup {date} |->
                   IF d \in DOMAIN sub THEN sub[d] ELSE holiday]
  IN [z \in DOMAIN h \cup {tz} |-> IF z = tz THEN newsub ELSE h[z]]

store(h, tz, date, holiday) ==
  LET sub == IF tz \in DOMAIN h THEN h[tz] ELSE <<>>
      newsub == [d \in DOMAIN sub \cup {date} |->
                   IF d = date THEN holiday ELSE sub[d]]
  IN [z \in DOMAIN h \cup {tz} |-> IF z = tz THEN newsub ELSE h[z]]

\* the unpacking of split(', ') and strptime both raise ValueError
line_ok(line) == Len(line) = 3 /\ strptime_ok(line[2])

\* one pass of the loop body
parse_line(h, line) == store(h, line[1], strptime_date(line[2]), line[3])

\* file.readlines()[1:]
skip_header(f) == SubSeq(f, 2, Len(f))

RECURSIVE load_loop(_, _)
load_loop(ls, h) ==
  IF ls = <<>> THEN [raised |-> "None", holidays |-> h]
  ELSE IF ~line_ok(Head(ls)) THEN [raised |-> "ValueError", holidays |-> h]
  ELSE load_loop(Tail(ls), parse_line(h, Head(ls)))

load_holidays(f) == load_loop(skip_header(f), <<>>)

calcUnchanged == UNCHANGED <<op, from_date, to_date, timezone, result, iterations>>

\* with open(...): lines = file.readlines()[1:]
ReadLines ==
  /\ pc = "open"
  /\ lines' = skip_header(file)
  /\ pc' = "loop"
  /\ UNCHANGED <<file, holidays, raised>>
  /\ calcUnchanged

\* for line in lines: ...
ParseLine ==
  /\ pc = "loop"
  /\ lines # <<>>
  /\ IF line_ok(Head(lines))
     THEN /\ holidays' = parse_line(holidays, Head(lines))
          /\ lines' = Tail(lines)
          /\ UNCHANGED <<pc, raised>>
     ELSE /\ raised' = "ValueError"
          /\ pc' = "failed"
          /\ UNCHANGED <<holidays, lines>>
  /\ UNCHANGED file
  /\ calcUnchanged

\* return holidays; __init__ stores it in self.holidays
LoadReturn ==
  /\ pc = "loop"
  /\ lines = <<>>
  /\ pc' = "ready"
  /\ UNCHANGED <<file, lines, holidays, raised>>
  /\ calcUnchanged

InitLoad ==
  /\ file \in LoadFiles
  /\ pc = "open"
  /\ lines = <<>>
  /\ holidays = <<>>
  /\ raised = "None"
  /\ op = "None"
  /\ from_date = None
  /\ to_date = None
  /\ timezone = "None"
  /\ result = None
  /\ iterations = 0

NextLoad == ReadLines \/ ParseLine \/ LoadReturn

SpecLoad == InitLoad /\ [][NextLoad]_vars

MaxOf(S) == CHOOSE x \in S : \A y \in S : y <= x

\* the records of the file (header excluded) for one timezone and date
RecordsFor(tz, ds) ==
  {i \in 2..Len(file) : file[i][1] = tz /\ file[i][2] = ds}

\* the loader's step by step result is the result of load_holidays
LoadAgrees ==
  /\ pc = "ready" => holidays = load_holidays(file).holidays /\ load_holidays(file).raised = "None"
  /\ pc = "failed" => load_holidays(file).raised = "ValueError"

\* C10: after a load of well-formed records the calendar holds, for each
\* (timezone, date) pair, exactly the label of the LAST record of the file
\* with that timezone and date; pairs without a record after the header
\* line have no entry.
C10_LastRecordWins ==
  pc = "ready" =>
    /\ \A tz \in DOMAIN holidays : \A d \in DOMAIN holidays[tz] :
         \E ds \in DateStrs : d = strptime_date(ds) /\ RecordsFor(tz, ds) # {}
    /\ \A tz \in FileTimezones \cup {"Timezone"} : \A ds \in DateStrs :
         LET idx == RecordsFor(tz, ds) IN
           IF idx = {}
           THEN ~(tz \in DOMAIN holidays /\ strptime_date(ds) \in DOMAIN holidays[tz])
           ELSE /\ tz \in DOMAIN holidays
                /\ strptime_date(ds) \in DOMAIN holidays[tz]
                /\ holidays[tz][strptime_date(ds)] = file[MaxOf(idx)][3]

\* a loaded file whose first line reads as a record of a pair that no later
\* line names, and in which a pair is overwritten with another label while a
\* record of a different pair stands between the two
C10_Witness ==
  /\ pc = "ready"
  /\ Len(file) = 4
  /\ file[1] \in RecordLines
  /\ RecordsFor(file[1][1], file[1][2]) = {}
  /\ file[2][1] = file[4][1] /\ file[2][2] = file[4][2] /\ file[2][3] # file[4][3]
  /\ <<file[3][1], file[3][2]>> # <<file[2][1], file[2][2]>>
  /\ holidays[file[4][1]][strptime_date(file[4][2])] = file[4][3]
  /\ holidays[file[3][1]][strptime_date(file[3][2])] = file[3][3]

(***************************************************************************)
(* Date arithmetic of the calculator                                       *)
(***************************************************************************)
\* the demo's from_date, datetime.datetime(2022, 12, 22), as an ordinal
FirstDay == ymd2ord(2022, 12, 22)

\* times of day the arguments are drawn from: midnight and noon
TimesOfDay == {0, 12 * 3600}

Days == FirstDay .. (FirstDay + NumDays - 1)

Datetimes == {Datetime(o, s) : o \in Days, s \in TimesOfDay}

Dates == {Date(o) : o \in Days}

CallerTimezones == {"US/Eastern", "UTC", "Asia/Tokyo"}

\* pytz utcoffset in seconds on the winter days of the model (EST, no DST)
utcoffset(tz) == IF tz = "US/Eastern" THEN 0 - 18000 ELSE 0

\* from_timezone.localize(from_date).astimezone(to_timezone)
convert_dt(d, from_date_TZ, to_date_TZ) ==
  LET s == d.second - utcoffset(from_date_TZ) + utcoffset(to_date_TZ)
  IN AwareDatetime(d.ordinal + (s \div SecondsPerDay), s % SecondsPerDay, to_date_TZ)

\* b - a as a normalised datetime.timedelta: 0 <= seconds < 86400
timedelta(a, b) ==
  LET d == b.ordinal - a.ordinal
      s == b.second - a.second
  IN [days |-> d + (s \div SecondsPerDay), seconds |-> s % SecondsPerDay]

\* current_date <= to_date, the test of both loops
not_after_by_day(current_date, to) ==
  current_date.ordinal <= to.ordinal

not_after(current_date, to) ==
  \/ current_date.ordinal < to.ordinal
  \/ current_date.ordinal = to.ordinal /\ current_date.second <= to.second

\* current_date += datetime.timedelta(days=1)
next_day(current_date) == [current_date EXCEPT !.ordinal = @ + 1]

get_days(from, to) == timedelta(from, to).days

RECURSIVE count_weekends_loop(_, _, _, _)
count_weekends_loop(current_date, to, weekends, iters) ==
  IF not_after(current_date, to)
  THEN count_weekends_loop(next_day(current_date), to,
                           IF weekday(current_date) >= 5 THEN weekends + 1 ELSE weekends,
                           iters + 1)
  ELSE [value |-> weekends, iterations |-> iters]

count_weekends(from, to) == count_weekends_loop(from, to, 0, 0)

get_days_exclude_we_end_exclusive(from, to) ==
  timedelta(from, to).days
    - count_weekends(from, [to EXCEPT !.ordinal = @ - 1]).value

get_days_exclude_we(from, to) ==
  LET days == timedelta(from, to).days
      weekends == count_weekends(from, to).value
  IN days - weekends

\* datetime.datetime.utcfromtimestamp(0): naive 1970-01-01 00:00:00
epoch == Datetime(ymd2ord(1970, 1, 1), 0)

\* naive - aware raises TypeError
get_days_since_epoch(d) ==
  IF d.tzinfo # epoch.tzinfo
  THEN [raised |-> "TypeError", value |-> 0]
  ELSE [raised |-> "None", value |-> timedelta(epoch, d).days]

\* timezone in self.holidays and date in self.holidays[timezone]
is_holiday(h, date, tz) ==
  tz \in DOMAIN h /\ date \in DOMAIN h[tz]

RECURSIVE get_business_days_loop(_, _, _, _, _)
get_business_days_loop(h, current_date, to, business_days, iters) ==
  IF not_after(current_date, to)
  THEN get_business_days_loop(h, next_day(current_date), to,
         IF weekday(current_date) < 5 /\ ~is_holiday(h, current_date, "US/Eastern")
         THEN business_days + 1 ELSE business_days,
         iters + 1)
  ELSE [value |-> business_days, iterations |-> iters]

get_business_days(h, from, to) == get_business_days_loop(h, from, to, 0, 0)

(***************************************************************************)
(* Calls on a constructed DateUtility                                      *)
(***************************************************************************)
loadUnchanged == UNCHANGED <<file, lines, holidays>>

Call(name, from, to, tz, res, rs, iters) ==
  /\ pc = "ready"
  /\ pc' = "returned"
  /\ op' = name
  /\ from_date' = from
  /\ to_date' = to
  /\ timezone' = tz
  /\ result' = res
  /\ raised' = rs
  /\ iterations' = iters
  /\ loadUnchanged

ConvertDt ==
  \E d \in Datetimes : \E ftz \in {"UTC", "US/Eastern"} : \E ttz \in {"UTC", "US/Eastern"} :
    Call("convert_dt", d, None, ftz, convert_dt(d, ftz, ttz), "None", 0)

GetDays ==
  \E from \in Datetimes : \E to \in Datetimes :
    Call("get_days", from, to, "None", get_days(from, to), "None", 0)

GetDaysExcludeWe ==
  \E from \in Datetimes : \E to \in Datetimes :
    Call("get_days_exclude_we", from, to, "None", get_days_exclude_we(from, to), "None",
         count_weekends(from, to).iterations)

CountWeekends ==
  \E from \in Datetimes : \E to \in Datetimes :
    Call("count_weekends", from, to, "None", count_weekends(from, to).value, "None",
         count_weekends(from, to).iterations)

\* the argument is a naive datetime, the epoch itself or a result of convert_dt
GetDaysSinceEpoch ==
  \E d \in Datetimes \cup {epoch}
           \cup {convert_dt(x, "UTC", tz) : x \in Datetimes, tz \in {"UTC", "US/Eastern"}} :
    LET r == get_days_since_epoch(d)
    IN Call("get_days_since_epoch", d, None, "None",
            IF r.raised = "None" THEN r.value ELSE None, r.raised, 0)

\* is_holiday is handed a datetime.datetime by get_business_days; a
\* datetime.date is accepted as well
IsHoliday ==
  \E d \in Datetimes \cup Dates : \E tz \in CallerTimezones :
    Call("is_holiday", d, None, tz, is_holiday(holidays, d, tz), "None", 0)

\* get_business_days has no timezone parameter: the timezone the caller
\* wants the holidays of is recorded, and cannot be passed
GetBusinessDays ==
  \E tz \in CallerTimezones :
    \E range \in (Datetimes \X Datetimes) \cup (Dates \X Dates) :
      LET r == get_business_days(holidays, range[1], range[2])
      IN Call("get_business_days", range[1], range[2], tz, r.value, "None", r.iterations)

Return ==
  /\ pc = "returned"
  /\ pc' = "ready"
  /\ op' = "None"
  /\ from_date' = None
  /\ to_date' = None
  /\ timezone' = "None"
  /\ result' = None
  /\ raised' = "None"
  /\ iterations' = 0
  /\ loadUnchanged

\* the state after DateUtility(holidays_file) returned
Init ==
  /\ file \in CalcFiles
  /\ pc = "ready"
  /\ lines = <<>>
  /\ holidays = load_holidays(file).holidays
  /\ raised = "None"
  /\ op = "None"
  /\ from_date = None
  /\ to_date = None
  /\ timezone = "None"
  /\ result = None
  /\ iterations = 0

Next ==
  \/ ConvertDt
  \/ GetDays
  \/ GetDaysExcludeWe
  \/ CountWeekends
  \/ GetDaysSinceEpoch
  \/ IsHoliday
  \/ GetBusinessDays
  \/ Return

Spec == Init /\ [][Next]_vars

Returned(name) == pc = "returned" /\ op = name

\* from_date > to_date
Reversed ==
  \/ from_date.ordinal > to_date.ordinal
  \/ from_date.ordinal = to_date.ordinal /\ from_date.second > to_date.second

\* the calendar days of the inclusive range [date of from, date of to]
RangeDays == from_date.ordinal .. to_date.ordinal

\* the calendar records day o as a holiday for timezone tz
Recorded(o, tz) == tz \in DOMAIN holidays /\ Date(o) \in DOMAIN holidays[tz]

\* weekdays of the range that are no recorded holiday for timezone tz
BusinessDaysOf(tz) ==
  Cardinality({o \in RangeDays : weekday(Date(o)) < 5 /\ ~Recorded(o, tz)})

\* C1: for from <= to, businessDays returns the number of calendar days of
\* the inclusive range that are Monday-Friday and not recorded as a holiday
\* for the timezone of the call.
C1_BusinessDaysSkipHolidays ==
  (Returned("get_business_days") /\ ~Reversed)
    => result = BusinessDaysOf(timezone)

\* the timezones under which the calendar records day o
RecordedUnder(o) == {tz \in CallerTimezones \cup DOMAIN holidays : Recorded(o, tz)}

\* C2: the holiday lookups of businessDays use the caller's timezone: a
\* weekday that is a holiday only under Z1 is not counted for Z1 and is
\* counted for every other timezone.
C2_CallerTimezoneDecides ==
  (/\ Returned("get_business_days")
   /\ from_date = to_date
   /\ weekday(from_date) < 5
   /\ Cardinality(RecordedUnder(from_date.ordinal)) = 1)
    => result = (IF timezone \in RecordedUnder(from_date.ordinal) THEN 0 ELSE 1)

\* C3: isHoliday(D, Z) is true exactly when Z is a key of the calendar and
\* the calendar date of D is a key of Z's sub-mapping, and never raises.
C3_IsHolidayIffRecorded ==
  Returned("is_holiday")
    => /\ raised = "None"
       /\ result = Recorded(from_date.ordinal, timezone)

\* the seconds of to - from, days apart at most NumDays
SecondsBetween ==
  (to_date.ordinal - from_date.ordinal) * SecondsPerDay
    + (to_date.second - from_date.second)

\* a / b with the remainder discarded toward zero
TruncDiv(a, b) == IF a >= 0 THEN a \div b ELSE 0 - ((0 - a) \div b)

\* C4: daysBetween(from, to) is the duration to - from in days with the
\* sub-day remainder discarded toward zero.
C4_DaysBetweenTruncates ==
  Returned("get_days") => result = TruncDiv(SecondsBetween, SecondsPerDay)

\* C5: daysBetween is antisymmetric, daysBetween(a, b) = -daysBetween(b, a).
C5_DaysBetweenAntisymmetric ==
  Returned("get_days") => result = 0 - get_days(to_date, from_date)

\* C6: for from <= to, countWeekends is the number of Saturdays and Sundays
\* among the calendar days of the inclusive range [date of from, date of to].
C6_CountWeekendsInclusive ==
  (Returned("count_weekends") /\ ~Reversed)
    => result = Cardinality({o \in RangeDays : weekday(Date(o)) >= 5})

\* C7: for from > to, countWeekends and businessDays return 0, raise nothing
\* and do not execute their loop body.
C7_ReversedRangeIsEmpty ==
  ((Returned("count_weekends") \/ Returned("get_business_days")) /\ Reversed)
    => /\ result = 0
       /\ raised = "None"
       /\ iterations = 0

\* a reversed range whose first day is a weekday, a reversed range whose
\* first day is a weekend
C7_Witness ==
  /\ \/ Returned("get_business_days") /\ weekday(from_date) < 5
        /\ from_date.ordinal = to_date.ordinal
     \/ Returned("count_weekends") /\ weekday(from_date) >= 5
  /\ Reversed
  /\ result = 0

\* C8: daysExcludingWeekends(from, to) = daysBetween(from, to) -
\* countWeekends(from, to) in either order of the arguments; it is 11 - 4 = 7
\* from 2022-12-22 to 2023-01-02, and the negative daysBetween when from > to.
C8_ExcludeWeekendsDifference ==
  Returned("get_days_exclude_we")
    => /\ result = get_days(from_date, to_date) - count_weekends(from_date, to_date).value
       /\ (from_date = Datetime(ymd2ord(2022, 12, 22), 0)
            /\ to_date = Datetime(ymd2ord(2023, 1, 2), 0))
          => /\ get_days(from_date, to_date) = 11
             /\ count_weekends(from_date, to_date).value = 4
             /\ result = 7
       /\ Reversed => result = get_days(from_date, to_date) /\ result < 0

\* the demo's call, 2022-12-22 to 2023-01-02
C8_Witness ==
  /\ Returned("get_days_exclude_we")
  /\ from_date = Datetime(ymd2ord(2022, 12, 22), 0)
  /\ to_date = Datetime(ymd2ord(2023, 1, 2), 0)
  /\ result = 7

\* C9: daysSinceEpoch accepts timezone-aware and naive datetimes alike and
\* returns the days from 1970-01-01T00:00:00 to the wall-clock fields of its
\* argument, never an error.
C9_DaysSinceEpochAcceptsAware ==
  Returned("get_days_since_epoch")
    => /\ raised = "None"
       /\ result = get_days(epoch, Datetime(from_date.ordinal, from_date.second))
====
